---- MODULE Spec2Model ----
(***************************************************************************)
(* A model of geoalchemy2/types.py: the Geometry, Geography and Raster     *)
(* column types, their SQLAlchemy hooks, and the registration of the three *)
(* classes in the PostgreSQL reflection registry (ischema_names).          *)
(*                                                                         *)
(* Python values are modelled as follows.                                  *)
(*   str    a sequence of Unicode code points (so that upper(), int() and *)
(*          %-formatting are computed character by character); the text   *)
(*          of a literal is given in a comment next to it;               *)
(*   int    a TLA+ integer (Python integers do not overflow; the inputs   *)
(*          stay below 2^31, the integers TLC computes with);             *)
(*   bytes  a sequence of integers in 0..255;                              *)
(*   an argument whose Python type varies is a record tagged by py.        *)
(* Opaque tokens (column references, registry keys, class names, function  *)
(* names of sqlalchemy.func) are TLA+ strings.                             *)
(***************************************************************************)
EXTENDS Integers, Sequences, FiniteSets, TLC

VARIABLES
  registry,   \* ischema_names: insertion-ordered dict, a sequence of <<key, class>>
  loads,      \* how many times the module body has been executed (import, reload)
  objs,       \* the column type instances, by identity 1..MaxObjs
  procs,      \* the closures made by result_processor and still callable, each
              \* named by the identity of the self it captured
  last        \* the latest call: its operation, arguments and outcome

vars == <<registry, loads, objs, procs, last>>

(***************************************************************************)
(* Bounds.                                                                 *)
(***************************************************************************)
MaxObjs == 2      \* column type instances alive at once
MaxLoads == 2     \* executions of the module body
MaxRows == 2      \* consecutive calls of one closure (calls of other closures may come between runs)

ObjIds == 1..MaxObjs

(***************************************************************************)
(* Python values.                                                          *)
(***************************************************************************)
None == [py |-> "NoneType"]
PyInt(n) == [py |-> "int", v |-> n]
PyBool(b) == [py |-> "bool", v |-> b]
PyStr(s) == [py |-> "str", s |-> s]
PyBytes(b) == [py |-> "bytes", b |-> b]

\* A str is a sequence of Unicode code points. The tables below are those of
\* the Unicode database str.upper() and int() consult (Unicode 14.0.0).

\* The code points of the decimal digit zero of every script; the nine code
\* points after each are its digits one to nine.
DigitZeros ==
  {48, 1632, 1776, 1984, 2406, 2534, 2662, 2790, 2918, 3046, 3174, 3302, 3430, 3558, 3664,
   3792, 3872, 4160, 4240, 6112, 6160, 6470, 6608, 6784, 6800, 6992, 7088, 7232, 7248,
   42528, 43216, 43264, 43472, 43504, 43600, 44016, 65296, 66720, 68912, 69734, 69872,
   69942, 70096, 70384, 70736, 70864, 71248, 71360, 71472, 71904, 72016, 72784, 73040,
   73120, 92768, 92864, 93008, 120782, 120792, 120802, 120812, 120822, 123200, 123632,
   125264, 130032}

\* The lower-case code points whose upper case is one code point: every
\* step-th code point c of lo..hi has upper case c + delta, as <<lo, hi, step, delta>>.
UpperRuns ==
  {<<97,122,1,-32>>, <<181,181,1,743>>, <<224,246,1,-32>>, <<248,254,1,-32>>,
   <<255,255,1,121>>, <<257,303,2,-1>>, <<305,305,1,-232>>, <<307,311,2,-1>>,
   <<314,328,2,-1>>, <<331,375,2,-1>>, <<378,382,2,-1>>, <<383,383,1,-300>>,
   <<384,384,1,195>>, <<387,389,2,-1>>, <<392,392,1,-1>>, <<396,396,1,-1>>,
   <<402,402,1,-1>>, <<405,405,1,97>>, <<409,409,1,-1>>, <<410,410,1,163>>,
   <<414,414,1,130>>, <<417,421,2,-1>>, <<424,424,1,-1>>, <<429,429,1,-1>>,
   <<432,432,1,-1>>, <<436,438,2,-1>>, <<441,441,1,-1>>, <<445,445,1,-1>>, <<447,447,1,56>>,
   <<453,453,1,-1>>, <<454,454,1,-2>>, <<456,456,1,-1>>, <<457,457,1,-2>>, <<459,459,1,-1>>,
   <<460,460,1,-2>>, <<462,476,2,-1>>, <<477,477,1,-79>>, <<479,495,2,-1>>,
   <<498,498,1,-1>>, <<499,499,1,-2>>, <<501,501,1,-1>>, <<505,543,2,-1>>, <<547,563,2,-1>>,
   <<572,572,1,-1>>, <<575,576,1,10815>>, <<578,578,1,-1>>, <<583,591,2,-1>>,
   <<592,592,1,10783>>, <<593,593,1,10780>>, <<594,594,1,10782>>, <<595,595,1,-210>>,
   <<596,596,1,-206>>, <<598,599,1,-205>>, <<601,601,1,-202>>, <<603,603,1,-203>>,
   <<604,604,1,42319>>, <<608,608,1,-205>>, <<609,609,1,42315>>, <<611,611,1,-207>>,
   <<613,613,1,42280>>, <<614,614,1,42308>>, <<616,616,1,-209>>, <<617,617,1,-211>>,
   <<618,618,1,42308>>, <<619,619,1,10743>>, <<620,620,1,42305>>, <<623,623,1,-211>>,
   <<625,625,1,10749>>, <<626,626,1,-213>>, <<629,629,1,-214>>, <<637,637,1,10727>>,
   <<640,640,1,-218>>, <<642,642,1,42307>>, <<643,643,1,-218>>, <<647,647,1,42282>>,
   <<648,648,1,-218>>, <<649,649,1,-69>>, <<650,651,1,-217>>, <<652,652,1,-71>>,
   <<658,658,1,-219>>, <<669,669,1,42261>>, <<670,670,1,42258>>, <<837,837,1,84>>,
   <<881,883,2,-1>>, <<887,887,1,-1>>, <<891,893,1,130>>, <<940,940,1,-38>>,
   <<941,943,1,-37>>, <<945,961,1,-32>>, <<962,962,1,-31>>, <<963,971,1,-32>>,
   <<972,972,1,-64>>, <<973,974,1,-63>>, <<976,976,1,-62>>, <<977,977,1,-57>>,
   <<981,981,1,-47>>, <<982,982,1,-54>>, <<983,983,1,-8>>, <<985,1007,2,-1>>,
   <<1008,1008,1,-86>>, <<1009,1009,1,-80>>, <<1010,1010,1,7>>, <<1011,1011,1,-116>>,
   <<1013,1013,1,-96>>, <<1016,1016,1,-1>>, <<1019,1019,1,-1>>, <<1072,1103,1,-32>>,
   <<1104,1119,1,-80>>, <<1121,1153,2,-1>>, <<1163,1215,2,-1>>, <<1218,1230,2,-1>>,
   <<1231,1231,1,-15>>, <<1233,1327,2,-1>>, <<1377,1414,1,-48>>, <<4304,4346,1,3008>>,
   <<4349,4351,1,3008>>, <<5112,5117,1,-8>>, <<7296,7296,1,-6254>>, <<7297,7297,1,-6253>>,
   <<7298,7298,1,-6244>>, <<7299,7300,1,-6242>>, <<7301,7301,1,-6243>>,
   <<7302,7302,1,-6236>>, <<7303,7303,1,-6181>>, <<7304,7304,1,35266>>,
   <<7545,7545,1,35332>>, <<7549,7549,1,3814>>, <<7566,7566,1,35384>>, <<7681,7829,2,-1>>,
   <<7835,7835,1,-59>>, <<7841,7935,2,-1>>, <<7936,7943,1,8>>, <<7952,7957,1,8>>,
   <<7968,7975,1,8>>, <<7984,7991,1,8>>, <<8000,8005,1,8>>, <<8017,8023,2,8>>,
   <<8032,8039,1,8>>, <<8048,8049,1,74>>, <<8050,8053,1,86>>, <<8054,8055,1,100>>,
   <<8056,8057,1,128>>, <<8058,8059,1,112>>, <<8060,8061,1,126>>, <<8112,8113,1,8>>,
   <<8126,8126,1,-7205>>, <<8144,8145,1,8>>, <<8160,8161,1,8>>, <<8165,8165,1,7>>,
   <<8526,8526,1,-28>>, <<8560,8575,1,-16>>, <<8580,8580,1,-1>>, <<9424,9449,1,-26>>,
   <<11312,11359,1,-48>>, <<11361,11361,1,-1>>, <<11365,11365,1,-10795>>,
   <<11366,11366,1,-10792>>, <<11368,11372,2,-1>>, <<11379,11379,1,-1>>,
   <<11382,11382,1,-1>>, <<11393,11491,2,-1>>, <<11500,11502,2,-1>>, <<11507,11507,1,-1>>,
   <<11520,11557,1,-7264>>, <<11559,11559,1,-7264>>, <<11565,11565,1,-7264>>,
   <<42561,42605,2,-1>>, <<42625,42651,2,-1>>, <<42787,42799,2,-1>>, <<42803,42863,2,-1>>,
   <<42874,42876,2,-1>>, <<42879,42887,2,-1>>, <<42892,42892,1,-1>>, <<42897,42899,2,-1>>,
   <<42900,42900,1,48>>, <<42903,42921,2,-1>>, <<42933,42947,2,-1>>, <<42952,42954,2,-1>>,
   <<42961,42961,1,-1>>, <<42967,42969,2,-1>>, <<42998,42998,1,-1>>, <<43859,43859,1,-928>>,
   <<43888,43967,1,-38864>>, <<65345,65370,1,-32>>, <<66600,66639,1,-40>>,
   <<66776,66811,1,-40>>, <<66967,67003,2,-39>>, <<66968,66976,2,-39>>,
   <<66980,66992,2,-39>>, <<66996,67000,2,-39>>, <<67004,67004,1,-39>>,
   <<68800,68850,1,-64>>, <<71872,71903,1,-32>>, <<93792,93823,1,-32>>,
   <<125218,125251,1,-34>>}

\* The code points whose upper case is several code points.
UpperSpecial ==
  {<<223,<<83,83>>>>, <<329,<<700,78>>>>, <<496,<<74,780>>>>, <<912,<<921,776,769>>>>,
   <<944,<<933,776,769>>>>, <<1415,<<1333,1362>>>>, <<7830,<<72,817>>>>,
   <<7831,<<84,776>>>>, <<7832,<<87,778>>>>, <<7833,<<89,778>>>>, <<7834,<<65,702>>>>,
   <<8016,<<933,787>>>>, <<8018,<<933,787,768>>>>, <<8020,<<933,787,769>>>>,
   <<8022,<<933,787,834>>>>, <<8064,<<7944,921>>>>, <<8065,<<7945,921>>>>,
   <<8066,<<7946,921>>>>, <<8067,<<7947,921>>>>, <<8068,<<7948,921>>>>,
   <<8069,<<7949,921>>>>, <<8070,<<7950,921>>>>, <<8071,<<7951,921>>>>,
   <<8072,<<7944,921>>>>, <<8073,<<7945,921>>>>, <<8074,<<7946,921>>>>,
   <<8075,<<7947,921>>>>, <<8076,<<7948,921>>>>, <<8077,<<7949,921>>>>,
   <<8078,<<7950,921>>>>, <<8079,<<7951,921>>>>, <<8080,<<7976,921>>>>,
   <<8081,<<7977,921>>>>, <<8082,<<7978,921>>>>, <<8083,<<7979,921>>>>,
   <<8084,<<7980,921>>>>, <<8085,<<7981,921>>>>, <<8086,<<7982,921>>>>,
   <<8087,<<7983,921>>>>, <<8088,<<7976,921>>>>, <<8089,<<7977,921>>>>,
   <<8090,<<7978,921>>>>, <<8091,<<7979,921>>>>, <<8092,<<7980,921>>>>,
   <<8093,<<7981,921>>>>, <<8094,<<7982,921>>>>, <<8095,<<7983,921>>>>,
   <<8096,<<8040,921>>>>, <<8097,<<8041,921>>>>, <<8098,<<8042,921>>>>,
   <<8099,<<8043,921>>>>, <<8100,<<8044,921>>>>, <<8101,<<8045,921>>>>,
   <<8102,<<8046,921>>>>, <<8103,<<8047,921>>>>, <<8104,<<8040,921>>>>,
   <<8105,<<8041,921>>>>, <<8106,<<8042,921>>>>, <<8107,<<8043,921>>>>,
   <<8108,<<8044,921>>>>, <<8109,<<8045,921>>>>, <<8110,<<8046,921>>>>,
   <<8111,<<8047,921>>>>, <<8114,<<8122,921>>>>, <<8115,<<913,921>>>>, <<8116,<<902,921>>>>,
   <<8118,<<913,834>>>>, <<8119,<<913,834,921>>>>, <<8124,<<913,921>>>>,
   <<8130,<<8138,921>>>>, <<8131,<<919,921>>>>, <<8132,<<905,921>>>>, <<8134,<<919,834>>>>,
   <<8135,<<919,834,921>>>>, <<8140,<<919,921>>>>, <<8146,<<921,776,768>>>>,
   <<8147,<<921,776,769>>>>, <<8150,<<921,834>>>>, <<8151,<<921,776,834>>>>,
   <<8162,<<933,776,768>>>>, <<8163,<<933,776,769>>>>, <<8164,<<929,787>>>>,
   <<8166,<<933,834>>>>, <<8167,<<933,776,834>>>>, <<8178,<<8186,921>>>>,
   <<8179,<<937,921>>>>, <<8180,<<911,921>>>>, <<8182,<<937,834>>>>,
   <<8183,<<937,834,921>>>>, <<8188,<<937,921>>>>, <<64256,<<70,70>>>>, <<64257,<<70,73>>>>,
   <<64258,<<70,76>>>>, <<64259,<<70,70,73>>>>, <<64260,<<70,70,76>>>>, <<64261,<<83,84>>>>,
   <<64262,<<83,84>>>>, <<64275,<<1348,1350>>>>, <<64276,<<1348,1333>>>>,
   <<64277,<<1348,1339>>>>, <<64278,<<1358,1350>>>>, <<64279,<<1348,1341>>>>}

\* Variant of upper: the text is kept as passed.
upper_asPassed(s) == s

\* The code points str.upper() changes.
UpperMapped ==
  {e[1] : e \in UpperSpecial} \cup
  UNION {{r[1] + k * r[3] : k \in 0..((r[2] - r[1]) \div r[3])} : r \in UpperRuns}

\* Their upper cases, each a sequence of one or more code points.
UpperTable ==
  [c \in UpperMapped |->
     IF \E e \in UpperSpecial : e[1] = c
     THEN (CHOOSE e \in UpperSpecial : e[1] = c)[2]
     ELSE <<c + (CHOOSE r \in UpperRuns : c \in r[1]..r[2] /\ (c - r[1]) % r[3] = 0)[4]>>]

\* The upper case of one code point.
UpperChar(c) == IF c \in UpperMapped THEN UpperTable[c] ELSE <<c>>

\* str.upper(): the upper cases of the code points, one after the other.
RECURSIVE upper(_)
upper(s) ==
  IF s = <<>> THEN <<>>
  ELSE IF Len(s) = 1 THEN UpperChar(s[1])
  ELSE LET half == Len(s) \div 2
       IN  upper(SubSeq(s, 1, half)) \o upper(SubSeq(s, half + 1, Len(s)))

\* The whitespace int() strips from the ends of an ASCII literal:
\* \t \n \v \f \r and the space.
Whitespace == {9, 10, 11, 12, 13, 32}

\* The whitespace beyond ASCII that int() takes for a space in a str.
UnicodeWhitespace ==
  {133, 160, 5760} \cup (8192..8202) \cup {8232, 8233, 8239, 8287, 12288}

IsDecimal(c) == \E z \in DigitZeros : c \in z..(z + 9)
DecimalValue(c) == c - (CHOOSE z \in DigitZeros : c \in z..(z + 9))

\* What int() makes of a code point of a str before it parses: ASCII is kept, a
\* space of any script becomes " ", a decimal digit of any script the ASCII
\* digit, and anything else a character no literal contains ("?").
ToAscii(c) ==
  IF c < 128 THEN c
  ELSE IF c \in UnicodeWhitespace THEN 32
  ELSE IF IsDecimal(c) THEN 48 + DecimalValue(c)
  ELSE 63

\* Leading and trailing whitespace go.
Strip(s) ==
  LET keep == {i \in 1..Len(s) : s[i] \notin Whitespace}
      lo == CHOOSE i \in keep : \A j \in 1..(i - 1) : s[j] \in Whitespace
      hi == CHOOSE i \in keep : \A j \in (i + 1)..Len(s) : s[j] \in Whitespace
  IN  IF keep = {} THEN <<>> ELSE SubSeq(s, lo, hi)

\* The digits of a base-10 literal: digits 0-9 (48..57), with single
\* underscores (95) between digits.
IsDigitString(d) ==
  /\ Len(d) > 0
  /\ \A i \in 1..Len(d) : d[i] \in 48..57 \/ d[i] = 95
  /\ d[1] # 95 /\ d[Len(d)] # 95
  /\ \A i \in 1..(Len(d) - 1) : ~(d[i] = 95 /\ d[i + 1] = 95)

\* sys.int_info.default_max_str_digits: int() refuses a literal of more
\* digits.
MaxStrDigits == 4300

IsDigit(c) == c \in 48..57

\* The digits of the literal, the underscores dropped.
DigitsOf(d) == SelectSeq(d, IsDigit)

\* The number a run of digits without leading zero denotes.
RECURSIVE SignificantValue(_)
SignificantValue(d) ==
  IF d = <<>> THEN 0
  ELSE 10 * SignificantValue(SubSeq(d, 1, Len(d) - 1)) + (d[Len(d)] - 48)

\* The number the digits denote: leading zeros add nothing.
DigitsValue(d) ==
  LET digits == DigitsOf(d)
      nonzero == {i \in 1..Len(digits) : digits[i] # 48}
      first == CHOOSE i \in nonzero : \A j \in nonzero : i <= j
  IN  IF nonzero = {} THEN 0
      ELSE SignificantValue(SubSeq(digits, first, Len(digits)))

\* The outcome of a call: either a value or the name of the exception raised.
Returned(v) == [exc |-> "none", v |-> v]
Raised(e) == [exc |-> e]

\* The parse of an ASCII integer literal: optional surrounding whitespace, an
\* optional sign "+" (43) or "-" (45), decimal digits. A literal that is not
\* of this form is refused, and so is one of more than MaxStrDigits digits
\* (whitespace, sign and underscores do not count, leading zeros do).
IntOfAscii(s) ==
  LET t == Strip(s)
      signed == Len(t) > 0 /\ t[1] \in {43, 45}
      d == IF signed THEN SubSeq(t, 2, Len(t)) ELSE t
  IN  IF ~IsDigitString(d) THEN Raised("ValueError")
      ELSE IF Len(DigitsOf(d)) > MaxStrDigits THEN Raised("ValueError")
      ELSE IF signed /\ t[1] = 45 THEN Returned(0 - DigitsValue(d))
      ELSE Returned(DigitsValue(d))

\* int(str)
IntOfStr(s) == IntOfAscii([i \in 1..Len(s) |-> ToAscii(s[i])])

\* int(bytes): the bytes are the ASCII literal.
IntOfBytes(b) == IntOfAscii(b)

\* Variant of int: a negative integer is taken as "unspecified", -1.
int_negativeUnspecified(x) ==
  CASE x.py = "int" -> Returned(IF x.v < 0 THEN -1 ELSE x.v)
    [] x.py = "bool" -> Returned(IF x.v THEN 1 ELSE 0)
    [] x.py = "str" -> IntOfStr(x.s)
    [] x.py = "bytes" -> IntOfBytes(x.b)
    [] OTHER -> Raised("TypeError")

\* The builtin int() on the argument types a caller passes as srid.
int(x) ==
  CASE x.py = "int" -> Returned(x.v)
    [] x.py = "bool" -> Returned(IF x.v THEN 1 ELSE 0)
    [] x.py = "str" -> IntOfStr(x.s)
    [] x.py = "bytes" -> IntOfBytes(x.b)
    [] OTHER -> Raised("TypeError")

\* '%d' % n: decimal digits, a leading minus sign for a negative number.
RECURSIVE NatDigits(_)
NatDigits(n) ==
  IF n < 10 THEN <<48 + n>>
  ELSE NatDigits(n \div 10) \o <<48 + (n % 10)>>

\* Variant of FormatD: '%u'-like, the sign is not written.
FormatD_unsigned(n) == IF n < 0 THEN NatDigits(0 - n) ELSE NatDigits(n)

FormatD(n) == IF n < 0 THEN <<45>> (* - *) \o NatDigits(0 - n) ELSE NatDigits(n)

(***************************************************************************)
(* The classes: their class attributes and constructors.                   *)
(***************************************************************************)
GISClasses == {"Geometry", "Geography"}

\* The class attribute `name`, the type name of CREATE TABLE.
name(cls) ==
  IF cls = "Geometry" THEN <<103,101,111,109,101,116,114,121>> (* geometry *)
  ELSE <<103,101,111,103,114,97,112,104,121>> (* geography *)

\* Variant of from_text: Geography inherits the geometry constructor.
from_text_geometryOnly(cls) == "ST_GeomFromText"

\* The class attribute `from_text`, the name of the ST_*FromText function.
from_text(cls) == IF cls = "Geometry" THEN "ST_GeomFromText" ELSE "ST_GeogFromText"

\* The defaults of the keyword arguments of _GISType.__init__ and Raster.__init__.
GISDefaults ==
  [geometry_type |-> <<71,69,79,77,69,84,82,89>> (* GEOMETRY *), srid |-> PyInt(-1),
   dimension |-> 2, spatial_index |-> TRUE, management |-> FALSE]
RasterDefaults == [spatial_index |-> TRUE]

\* The value a call passing the keyword arguments kw binds to parameter k.
Arg(kw, defaults, k) == IF k \in DOMAIN kw THEN kw[k] ELSE defaults[k]

\* Variant of GISInit: srid is coerced and assigned last.
GISInit_sridLast(kw) ==
  LET a4 == [geometry_type |-> upper(Arg(kw, GISDefaults, "geometry_type")),
             dimension |-> Arg(kw, GISDefaults, "dimension"),
             spatial_index |-> Arg(kw, GISDefaults, "spatial_index"),
             management |-> Arg(kw, GISDefaults, "management")]
      n == int(Arg(kw, GISDefaults, "srid"))
  IN  IF n.exc # "none" THEN [exc |-> n.exc, attrs |-> a4]
      ELSE [exc |-> "none", attrs |-> a4 @@ [srid |-> n.v]]

\* _GISType.__init__: the attributes of self are assigned one statement after
\* the other; int(srid) may raise between the first assignment and the second.
\* attrs is the attribute dictionary of self when __init__ returns or raises.
GISInit(kw) ==
  LET a1 == [geometry_type |-> upper(Arg(kw, GISDefaults, "geometry_type"))]
      n == int(Arg(kw, GISDefaults, "srid"))
  IN  IF n.exc # "none" THEN [exc |-> n.exc, attrs |-> a1]
      ELSE [exc |-> "none",
            attrs |-> a1 @@ [srid |-> n.v,
                             dimension |-> Arg(kw, GISDefaults, "dimension"),
                             spatial_index |-> Arg(kw, GISDefaults, "spatial_index"),
                             management |-> Arg(kw, GISDefaults, "management")]]

\* Raster.__init__
RasterInit(kw) ==
  [exc |-> "none", attrs |-> [spatial_index |-> Arg(kw, RasterDefaults, "spatial_index")]]

\* cls(**kw): a new instance is allocated and __init__ runs on it.
New(cls, kw) == IF cls = "Raster" THEN RasterInit(kw) ELSE GISInit(kw)

NoObj == [cls |-> "none"]
Instance(cls, attrs) == [cls |-> cls, attrs |-> attrs]

(***************************************************************************)
(* The hooks, as functions of self (an instance) and their arguments.      *)
(***************************************************************************)
\* _GISType.get_col_spec and Raster.get_col_spec
get_col_spec(self) ==
  IF self.cls = "Raster" THEN <<114,97,115,116,101,114>> (* raster *)
  ELSE name(self.cls) \o <<40>> (* ( *) \o self.attrs.geometry_type \o <<44>> (* , *)
         \o FormatD(self.attrs.srid) \o <<41>> (* ) *)

\* func.<fn>(arg, type_=t): a SQL function call expression; type is the identity
\* of the type object the expression is tagged with.
FuncCall(fn, arg, t) == [fn |-> fn, args |-> <<arg>>, type |-> t]

\* Variant of column_expression: type_=self is not passed.
column_expression_untagged(id, col) == FuncCall("ST_AsBinary", col, 0)

\* _GISType.column_expression, on the instance with identity id
column_expression(id, col) == FuncCall("ST_AsBinary", col, id)

\* _GISType.bind_expression, on the instance self with identity id
bind_expression(id, self, bindvalue) == FuncCall(from_text(self.cls), bindvalue, id)

\* The element wrappers of geoalchemy2.elements, as the constructor calls made here.
WKBElement(data, srid) == [cls |-> "WKBElement", data |-> data, srid |-> srid]
RasterElement(data) == [cls |-> "RasterElement", data |-> data]

\* Variant of process: the None test is missing.
process_wrapsNone(self, value) ==
  IF self.cls = "Raster" THEN RasterElement(value)
  ELSE WKBElement(value, self.attrs.srid)

\* Variant of process: srid=self.srid is not passed, WKBElement takes its default.
process_defaultSrid(self, value) ==
  IF value # None
  THEN IF self.cls = "Raster" THEN RasterElement(value)
       ELSE WKBElement(value, -1)
  ELSE None

\* The closure `process` returned by result_processor, self being the captured instance.
process(self, value) ==
  IF value # None
  THEN IF self.cls = "Raster" THEN RasterElement(value)
       ELSE WKBElement(value, self.attrs.srid)
  ELSE None

(***************************************************************************)
(* The reflection registry, a Python dict.                                 *)
(***************************************************************************)
HasKey(d, k) == \E i \in 1..Len(d) : d[i][1] = k

\* Variant of DictSet: a list of pairs appended to, not a dict.
DictSet_append(d, k, v) == Append(d, <<k, v>>)

\* d[k] = v: an existing key keeps its position and takes the new value,
\* a new key is appended.
DictSet(d, k, v) ==
  IF HasKey(d, k)
  THEN [i \in 1..Len(d) |-> IF d[i][1] = k THEN <<k, v>> ELSE d[i]]
  ELSE Append(d, <<k, v>>)

\* The three assignments at the end of the module body.
RegisterAll(d) ==
  DictSet(DictSet(DictSet(d, "geometry", "Geometry"), "geography", "Geography"),
          "raster", "Raster")

(***************************************************************************)
(* Inputs.                                                                 *)
(***************************************************************************)
MaxBytes == 2     \* length of a raw value read from the driver

RECURSIVE ByteStrings(_)
ByteStrings(n) ==
  IF n = 0 THEN {<<>>}
  ELSE ByteStrings(n - 1) \cup
       {Append(b, x) : b \in {c \in ByteStrings(n - 1) : Len(c) = n - 1}, x \in {1, 255}}

\* What the driver hands to the closure: NULL or the raw bytes of the row.
RowValues == {None} \cup {PyBytes(b) : b \in ByteStrings(MaxBytes)}

Dialects == {"postgresql", "sqlite"}
Columns == {"t.geom", "ST_Buffer(t.geom, 2)"}
BindValues == {"POINT(1 2)", "SRID=4326;POINT(1 2)"}

KindInputs ==
  { <<80,79,73,78,84>> (* POINT *), <<112,111,105,110,116>> (* point *), <<80,111,105,110,116>> (* Point *),
    <<76,105,110,101,83,116,114,105,110,103>> (* LineString *), <<99,117,114,118,101>> (* curve *),
    <<120,89,95,51,100>> (* xY_3d *), <<>>,
    <<115,116,114,97,223,101>> (* stra\xdfe *), <<233,181,255>> (* \xe9\xb5\xff *) }

\* A run of n zeros, used to build literals around the digit limit of int().
Zeros(n) == [i \in 1..n |-> 48]

\* Literals of 4300 digits, which int() takes, and of 4301, which it refuses.
LongStrInputs ==
  { Zeros(4299) \o <<55>> (* 0...07, 4300 digits *),
    <<32,45>> \o Zeros(4299) \o <<95,55,10>> (*  -0...0_7\n, 4300 digits *),
    Zeros(4300) \o <<55>> (* 0...07, 4301 digits *),
    [i \in 1..4300 |-> 1632] \o <<1639>> (* \u0660...\u0660\u0667, 4301 digits *) }

LongBytesInputs ==
  { Zeros(4299) \o <<55>> (* 0...07, 4300 digits *),
    Zeros(4300) \o <<55>> (* 0...07, 4301 digits *) }

LongSridInputs ==
  {PyStr(t) : t \in LongStrInputs} \cup {PyBytes(b) : b \in LongBytesInputs}

SridInputs ==
  {PyInt(n) : n \in {-4326, -1, 0, 7, 4326, 900913}} \cup
  {PyStr(t) : t \in { <<52,51,50,54>> (* 4326 *), <<45,49>> (* -1 *), <<32,52,50,10>> (*  42\n *),
                      <<43,55>> (* +7 *), <<48,48,55>> (* 007 *), <<52,95,51,50,54>> (* 4_326 *),
                      <<45,57,48,48,57,49,51>> (* -900913 *), <<48>> (* 0 *),
                      <<110,111,116,45,97,45,110,117,109,98,101,114>> (* not-a-number *),
                      <<>>, <<45>> (* - *), <<52,32,50>> (* 4 2 *), <<52,51,50,54,46,48>> (* 4326.0 *),
                      <<95,52>> (* _4 *), <<52,95,95,50>> (* 4__2 *), <<83,82,73,68>> (* SRID *) }} \cup
  {PyStr(t) : t \in { <<13,52,50>> (* \r42 *), <<52,51,50,54,13,10>> (* 4326\r\n *), <<12,55>> (* \x0c7 *),
                      <<11,52,50>> (* \x0b42 *),
                      <<160,45,55,133>> (* \xa0-7\x85 *),
                      <<1636,1634>> (* \u0664\u0662 *),
                      <<28,55>> (* \x1c7 *),
                      <<52,160,50>> (* 4\xa02 *) }} \cup
  {PyBytes(b) : b \in { <<52, 50>>, <<13, 10, 45, 55, 11>>, <<120>>, <<>> }} \cup
  {None, PyBool(TRUE)}

\* The keyword arguments of the calls made to Geometry and Geography when a
\* column is declared: any of the arguments may be left to its default.
GISKwargs ==
  LET kinds == {<<>>} \cup {[geometry_type |-> k] : k \in KindInputs}
      srids == {<<>>} \cup {[srid |-> x] : x \in SridInputs}
      rest == {<<>>, [dimension |-> 3],
               [dimension |-> 3, spatial_index |-> FALSE, management |-> TRUE]}
      long == {[srid |-> x] : x \in LongSridInputs}
  IN  {k @@ x @@ r : k \in kinds, x \in srids, r \in rest} \cup
      {k @@ x : k \in {<<>>, [geometry_type |-> <<112,111,105,110,116>> (* point *)]}, x \in long}

RasterKwargs == {<<>>, [spatial_index |-> TRUE], [spatial_index |-> FALSE]}

Call(cls, kw) == [cls |-> cls, kw |-> kw]

\* Every declaration of the input space, for the study of the constructors.
ConfigureCalls ==
  {Call(c, kw) : c \in GISClasses, kw \in GISKwargs} \cup
  {Call("Raster", kw) : kw \in RasterKwargs}

\* The declarations of a small schema, for the study of the hooks.
SchemaCalls ==
  { Call("Geometry", [geometry_type |-> <<80,79,73,78,84>> (* POINT *), srid |-> PyInt(4326)]),
    Call("Geography", [geometry_type |-> <<76,105,110,101,83,116,114,105,110,103>> (* LineString *)]),
    Call("Geography", [geometry_type |-> <<112,111,105,110,116>> (* point *),
                       srid |-> PyStr(<<52,51,50,54>> (* 4326 *)), dimension |-> 3,
                       spatial_index |-> FALSE, management |-> TRUE]),
    Call("Geometry", [srid |-> PyStr(<<110,111,116,45,97,45,110,117,109,98,101,114>> (* not-a-number *))]),
    Call("Raster", <<>>) }

\* ischema_names before this module is imported: the types of the PostgreSQL
\* dialect, and possibly a "geometry" entry left by another package.
BaseRegistries ==
  { << <<"integer", "INTEGER">>, <<"text", "TEXT">> >>,
    << <<"integer", "INTEGER">>, <<"geometry", "NullType">>, <<"text", "TEXT">> >> }

(***************************************************************************)
(* State machine.                                                          *)
(***************************************************************************)
Init ==
  /\ registry \in BaseRegistries
  /\ loads = 0
  /\ objs = [i \in ObjIds |-> NoObj]
  /\ procs = {}
  /\ last = [op |-> "none"]

\* The module body runs (import, or a reload): the classes are defined and
\* registered in ischema_names.
Load ==
  /\ loads < MaxLoads
  /\ loads' = loads + 1
  /\ registry' = RegisterAll(registry)
  /\ last' = [op |-> "load", before |-> registry]
  /\ UNCHANGED <<objs, procs>>

\* A column is declared: call.cls(**call.kw), the instance getting identity id
\* when the constructor returns it.
Construct(id, call) ==
  /\ loads >= 1
  /\ objs[id] = NoObj
  /\ LET r == New(call.cls, call.kw)
     IN  /\ objs' = IF r.exc = "none"
                    THEN [objs EXCEPT ![id] = Instance(call.cls, r.attrs)]
                    ELSE objs
         /\ last' = [op |-> "construct", call |-> call, exc |-> r.exc,
                     attrs |-> r.attrs, ret |-> IF r.exc = "none" THEN id ELSE 0]
  /\ UNCHANGED <<registry, loads, procs>>

\* DDL emission asks instance id for its column specification.
GetColSpec(id) ==
  /\ objs[id] # NoObj
  /\ last' = [op |-> "get_col_spec", self |-> id, out |-> get_col_spec(objs[id])]
  /\ UNCHANGED <<registry, loads, objs, procs>>

\* The column is referenced in a query.
ColumnExpression(id, col) ==
  /\ objs[id].cls \in GISClasses
  /\ last' = [op |-> "column_expression", self |-> id, arg |-> col,
              out |-> column_expression(id, col)]
  /\ UNCHANGED <<registry, loads, objs, procs>>

\* A literal is bound for the column.
BindExpression(id, bindvalue) ==
  /\ objs[id].cls \in GISClasses
  /\ last' = [op |-> "bind_expression", self |-> id, arg |-> bindvalue,
              out |-> bind_expression(id, objs[id], bindvalue)]
  /\ UNCHANGED <<registry, loads, objs, procs>>

\* Variant of ResultProcessor: the dialect is cached on self.
ResultProcessor_cachesDialect(id, dialect) ==
  /\ objs[id] # NoObj
  /\ procs' = procs \cup {id}
  /\ objs' = [objs EXCEPT ![id].attrs = [dialect |-> dialect] @@ @]
  /\ last' = [op |-> "result_processor", self |-> id, dialect |-> dialect]
  /\ UNCHANGED <<registry, loads>>

\* result_processor(dialect, coltype) returns a closure over self; the closures
\* returned earlier stay callable.
ResultProcessor(id, dialect) ==
  /\ objs[id] # NoObj
  /\ procs' = procs \cup {id}
  /\ last' = [op |-> "result_processor", self |-> id, dialect |-> dialect]
  /\ UNCHANGED <<registry, loads, objs>>

\* One of the closures, the one over instance h, is called on the value of a
\* fetched row; row counts the calls of this closure in a row.
Process(h, value) ==
  /\ h \in procs
  /\ LET row == IF last.op = "process" /\ last.self = h THEN last.row + 1 ELSE 1
     IN  /\ row <= MaxRows
         /\ last' = [op |-> "process", self |-> h, arg |-> value, row |-> row,
                     out |-> process(objs[h], value)]
  /\ UNCHANGED <<registry, loads, objs, procs>>

FirstFree == CHOOSE i \in ObjIds : objs[i] = NoObj /\ \A j \in ObjIds : objs[j] = NoObj => i <= j
HasFree == \E i \in ObjIds : objs[i] = NoObj

Hooks ==
  \/ \E id \in ObjIds : GetColSpec(id)
  \/ \E id \in ObjIds, col \in Columns : ColumnExpression(id, col)
  \/ \E id \in ObjIds, v \in BindValues : BindExpression(id, v)
  \/ \E id \in ObjIds, d \in Dialects : ResultProcessor(id, d)
  \/ \E h \in ObjIds, v \in RowValues : Process(h, v)

\* A column of the schema is declared; the new instance gets the next identity.
Declare(call) == HasFree /\ Construct(FirstFree, call)

Next ==
  \/ Load
  \/ \E call \in SchemaCalls : Declare(call)
  \/ Hooks

Spec == Init /\ [][Next]_vars

\* The constructors over the whole input space: the module is loaded, one
\* column is declared, and its DDL is emitted.
DeclareOne(call) == last.op = "load" /\ Construct(1, call)

NextConfigure ==
  \/ Load
  \/ \E call \in ConfigureCalls : DeclareOne(call)
  \/ GetColSpec(1)

SpecConfigure == Init /\ [][NextConfigure]_vars

(***************************************************************************)
(* Properties.                                                             *)
(***************************************************************************)
IsGIS(id) == objs[id].cls \in GISClasses
Decoded == last.op = "process"
Constructed == last.op = "construct"
GISConstructed == Constructed /\ last.call.cls \in GISClasses
KindArg == Arg(last.call.kw, GISDefaults, "geometry_type")
SridArg == Arg(last.call.kw, GISDefaults, "srid")

\* C1: the closure returned by result_processor of a Geometry, Geography or
\* Raster instance returns None for a None input, never an element.
C1_NullDecodesToNone ==
  (Decoded /\ last.arg = None) => last.out = None

C1_Witness ==
  /\ Decoded /\ last.arg = None /\ last.out = None
  /\ objs[last.self].cls = "Raster"
  /\ \E id \in ObjIds : IsGIS(id)

\* C2: for a Geometry or Geography instance and a non-null row value, the
\* closure returns a WKBElement carrying the instance's srid and the input
\* bytes unchanged, on every row decoded through the closure.
C2_DecodeKeepsSridAndBytes ==
  (Decoded /\ last.arg # None /\ IsGIS(last.self)) =>
    /\ last.out.cls = "WKBElement"
    /\ last.out.srid = objs[last.self].attrs.srid
    /\ last.out.data = last.arg

C2_Witness ==
  /\ Decoded /\ last.row = 2 /\ IsGIS(last.self)
  /\ \E h \in procs : h # last.self /\ IsGIS(h) /\ objs[h].attrs.srid = -1
  /\ last.arg = PyBytes(<<1, 255>>)
  /\ last.out = WKBElement(PyBytes(<<1, 255>>), 4326)

\* The spec's ConfigurationError: the exceptions int() raises on what it cannot coerce.
ConfigurationErrors == {"ValueError", "TypeError"}

\* The srid arguments of the input space that are not integer-coercible.
NonCoercibleSrids ==
  {None, PyBytes(<<120>>), PyBytes(<<>>)} \cup
  {PyStr([i \in 1..4301 |-> IF i = 4301 THEN 55 ELSE 48]) (* 0...07, 4301 digits *),
   PyStr([i \in 1..4301 |-> IF i = 4301 THEN 1639 ELSE 1632]) (* \u0660...\u0667, 4301 digits *),
   PyBytes([i \in 1..4301 |-> IF i = 4301 THEN 55 ELSE 48]) (* 0...07, 4301 digits *)} \cup
  {PyStr(t) : t \in { <<110,111,116,45,97,45,110,117,109,98,101,114>> (* not-a-number *),
                      <<>>, <<45>> (* - *), <<52,32,50>> (* 4 2 *), <<52,51,50,54,46,48>> (* 4326.0 *),
                      <<95,52>> (* _4 *), <<52,95,95,50>> (* 4__2 *), <<83,82,73,68>> (* SRID *),
                      <<28,55>> (* \x1c7 *), <<52,160,50>> (* 4\xa02 *) }}

ConfigureFailed == GISConstructed /\ SridArg \in NonCoercibleSrids

\* C3 as stated: a constructor call with a non-coercible srid fails with a
\* ConfigurationError, returns no descriptor, and has assigned no attribute
\* of the instance when the error is raised.
C3_AsStated ==
  ConfigureFailed =>
    /\ last.exc \in ConfigurationErrors
    /\ last.ret = 0
    /\ DOMAIN last.attrs = {}

\* C3 amended: a constructor call with a non-coercible srid fails with a
\* ConfigurationError (ValueError for a string or bytes, TypeError for None) and
\* returns no descriptor; when the error is raised the abandoned instance
\* carries geometry_type, already upper-cased, and none of srid, dimension,
\* spatial_index, management. No other constructor call fails.
C3_FailsAfterKindAssigned ==
  /\ ConfigureFailed =>
       /\ last.exc = (IF SridArg = None THEN "TypeError" ELSE "ValueError")
       /\ last.exc \in ConfigurationErrors
       /\ last.ret = 0
       /\ objs[1] = NoObj
       /\ DOMAIN last.attrs = {"geometry_type"}
       /\ \A i \in 1..Len(last.attrs.geometry_type) :
            last.attrs.geometry_type[i] \notin 97..122
  /\ (Constructed /\ last.exc # "none") => ConfigureFailed

C3_Witness ==
  /\ ConfigureFailed
  /\ SridArg = PyStr(<<110,111,116,45,97,45,110,117,109,98,101,114>> (* not-a-number *))
  /\ last.exc = "ValueError"
  /\ last.attrs = [geometry_type |-> <<80,79,73,78,84>> (* POINT *)]
  /\ KindArg = <<112,111,105,110,116>> (* point *)

\* The decimal text d denotes n the way '%d' writes it: a minus sign exactly
\* when n is negative, then the digits of |n| without leading zeros.
IsDecimalOf(d, n) ==
  LET m == IF n < 0 THEN SubSeq(d, 2, Len(d)) ELSE d
  IN  /\ Len(m) >= 1
      /\ (n < 0) => d[1] = 45
      /\ \A i \in 1..Len(m) : m[i] \in 48..57
      /\ (Len(m) > 1) => m[1] # 48
      /\ DigitsValue(m) = (IF n < 0 THEN 0 - n ELSE n)

TypeNameOf(cls) ==
  CASE cls = "Geometry" -> <<103,101,111,109,101,116,114,121>> (* geometry *)
    [] cls = "Geography" -> <<103,101,111,103,114,97,112,104,121>> (* geography *)

\* C4: get_col_spec of a Geometry or Geography instance is exactly
\* "<typeName>(<geometry_type>,<srid>)", the srid in decimal with a minus sign
\* when negative; for Raster it is exactly "raster". Nothing else (dimension,
\* spatial_index, management) shows in it.
C4_ColSpecFormat ==
  (last.op = "get_col_spec") =>
    LET o == objs[last.self]
        r == last.out
    IN  IF o.cls = "Raster" THEN r = <<114,97,115,116,101,114>> (* raster *)
        ELSE LET pre == TypeNameOf(o.cls) \o <<40>> (* ( *) \o o.attrs.geometry_type \o <<44>> (* , *)
             IN  /\ Len(r) >= Len(pre) + 2
                 /\ SubSeq(r, 1, Len(pre)) = pre
                 /\ r[Len(r)] = 41
                 /\ IsDecimalOf(SubSeq(r, Len(pre) + 1, Len(r) - 1), o.attrs.srid)

C4_Witness ==
  /\ last.op = "get_col_spec"
  /\ objs[last.self].cls = "Geography"
  /\ objs[last.self].attrs.dimension = 3
  /\ objs[last.self].attrs.srid = -1
  /\ last.out = <<103,101,111,103,114,97,112,104,121,40,76,73,78,69,83,84,82,73,78,71,44,45,49,41>> (* geography(LINESTRING,-1) *)

\* C5: bind_expression(v) is the call <from_text>(v) tagged with the instance
\* itself, the function being ST_GeomFromText for every Geometry instance and
\* ST_GeogFromText for every Geography instance.
C5_BindUsesFromText ==
  (last.op = "bind_expression") =>
    /\ last.out.fn = (CASE objs[last.self].cls = "Geometry" -> "ST_GeomFromText"
                        [] objs[last.self].cls = "Geography" -> "ST_GeogFromText")
    /\ last.out.args = <<last.arg>>
    /\ last.out.type = last.self

C5_Witness ==
  /\ last.op = "bind_expression"
  /\ last.self = 2
  /\ objs[2].cls = "Geography" /\ objs[1].cls = "Geometry"
  /\ last.out.fn = "ST_GeogFromText"

\* C6 as stated: column_expression(col) is a call of the function named
\* AsBinary on col alone, tagged with the instance it was called on.
C6_AsStated ==
  (last.op = "column_expression") =>
    /\ last.out.fn = "AsBinary"
    /\ last.out.args = <<last.arg>>
    /\ last.out.type = last.self

\* C6 amended: column_expression(col) is a call of the function named
\* ST_AsBinary on col alone, tagged with the instance it was called on.
C6_ColumnUsesSTAsBinary ==
  (last.op = "column_expression") =>
    /\ last.out.fn = "ST_AsBinary"
    /\ last.out.args = <<last.arg>>
    /\ last.out.type = last.self

C6_Witness ==
  /\ last.op = "column_expression"
  /\ last.self = 2 /\ IsGIS(1) /\ IsGIS(2)
  /\ last.arg = "ST_Buffer(t.geom, 2)"

SpatialKeys == {"geometry", "geography", "raster"}
ClassOfKey(k) ==
  CASE k = "geometry" -> "Geometry" [] k = "geography" -> "Geography" [] k = "raster" -> "Raster"
Entries(k) == {i \in 1..Len(registry) : registry[i][1] = k}

\* C7: after one or more executions of the registration, ischema_names has
\* exactly one entry for each of "geometry", "geography" and "raster", mapped
\* to Geometry, Geography and Raster; a repeated registration leaves the
\* registry as the previous one left it.
C7_RegistrationIdempotent ==
  (loads >= 1) =>
    /\ \A k \in SpatialKeys :
         /\ Cardinality(Entries(k)) = 1
         /\ \A i \in Entries(k) : registry[i][2] = ClassOfKey(k)
    /\ (last.op = "load" /\ loads >= 2) => registry = last.before

C7_Witness ==
  /\ last.op = "load" /\ loads >= 2
  /\ registry = << <<"integer", "INTEGER">>, <<"geometry", "Geometry">>, <<"text", "TEXT">>,
                   <<"geography", "Geography">>, <<"raster", "Raster">> >>

\* The srid arguments of the input space that are strings int() accepts, with
\* the integer each denotes.
StrCoercions ==
  { << <<52,51,50,54>> (* 4326 *), 4326 >>, << <<45,49>> (* -1 *), -1 >>, << <<32,52,50,10>> (*  42\n *), 42 >>,
    << <<43,55>> (* +7 *), 7 >>, << <<48,48,55>> (* 007 *), 7 >>, << <<52,95,51,50,54>> (* 4_326 *), 4326 >>,
    << <<45,57,48,48,57,49,51>> (* -900913 *), -900913 >>, << <<48>> (* 0 *), 0 >>,
    << <<13,52,50>> (* \r42 *), 42 >>, << <<52,51,50,54,13,10>> (* 4326\r\n *), 4326 >>,
    << <<12,55>> (* \x0c7 *), 7 >>,
    << <<11,52,50>> (* \x0b42 *), 42 >>, << <<160,45,55,133>> (* \xa0-7\x85 *), -7 >>, << <<1636,1634>> (* \u0664\u0662 *), 42 >>,
    << [i \in 1..4300 |-> IF i = 4300 THEN 55 ELSE 48] (* 0...07, 4300 digits *), 7 >>,
    << [i \in 1..4304 |-> CASE i = 1 -> 32 [] i = 2 -> 45 [] i = 4302 -> 95
                             [] i = 4303 -> 55 [] i = 4304 -> 10 [] OTHER -> 48]
       (*  -0...0_7\n, 4300 digits *), -7 >> }

\* The same for the bytes objects.
BytesCoercions ==
  { << <<52, 50>>, 42 >>, << <<13, 10, 45, 55, 11>>, -7 >>,
    << [i \in 1..4300 |-> IF i = 4300 THEN 55 ELSE 48] (* 0...07, 4300 digits *), 7 >> }

\* c is the upper case of b: the capital of a small letter, any other
\* character itself.
IsUpperOf(c, b) == IF b \in 97..122 THEN c = b - 32 ELSE c = b

\* The geometry_type arguments of the input space that are not ASCII, with
\* their upper case.
KindCoercions ==
  { << <<115,116,114,97,223,101>> (* stra\xdfe *), <<83,84,82,65,83,83,69>> (* STRASSE *) >>,
    << <<233,181,255>> (* \xe9\xb5\xff *), <<201,924,376>> (* \xc9\u039c\u0178 *) >> }

\* C8: whatever string is passed as geometry_type, of any letter case and
\* listed or not, the constructor does not reject it (it succeeds whenever the
\* srid is integer-coercible) and stores the upper-cased string; upper-casing
\* the stored string again changes nothing.
C8_KindStoredUpperCased ==
  GISConstructed =>
    /\ (SridArg \notin NonCoercibleSrids) => (last.exc = "none" /\ last.ret # 0)
    /\ "geometry_type" \in DOMAIN last.attrs
    /\ IF \A i \in 1..Len(KindArg) : KindArg[i] < 128
       THEN /\ Len(last.attrs.geometry_type) = Len(KindArg)
            /\ \A i \in 1..Len(KindArg) : IsUpperOf(last.attrs.geometry_type[i], KindArg[i])
       ELSE \E k \in KindCoercions : k[1] = KindArg /\ k[2] = last.attrs.geometry_type
    /\ upper(last.attrs.geometry_type) = last.attrs.geometry_type
    /\ (last.ret # 0) => objs[last.ret].attrs.geometry_type = last.attrs.geometry_type

C8_Witness ==
  /\ GISConstructed /\ last.ret = 1
  /\ KindArg = <<120,89,95,51,100>> (* xY_3d *)
  /\ objs[1].attrs.geometry_type = <<88,89,95,51,68>> (* XY_3D *)

\* C9: an integer srid, negative ones and the default -1 included, is stored
\* exactly; a string (or bytes object) that int() accepts is stored as the
\* integer it denotes.
C9_SridRoundTrips ==
  GISConstructed =>
    /\ (SridArg.py = "int") =>
         /\ last.exc = "none"
         /\ objs[last.ret].attrs.srid = SridArg.v
    /\ (SridArg.py = "str" /\ last.exc = "none") =>
         \E c \in StrCoercions : c[1] = SridArg.s /\ objs[last.ret].attrs.srid = c[2]
    /\ (SridArg.py = "str" /\ \E c \in StrCoercions : c[1] = SridArg.s) => last.exc = "none"
    /\ (SridArg.py = "bytes" /\ last.exc = "none") =>
         \E c \in BytesCoercions : c[1] = SridArg.b /\ objs[last.ret].attrs.srid = c[2]
    /\ (SridArg.py = "bytes" /\ \E c \in BytesCoercions : c[1] = SridArg.b) => last.exc = "none"

C9_Witness ==
  /\ GISConstructed /\ last.ret = 1
  /\ SridArg = PyInt(-4326)
  /\ objs[1].attrs.srid = -4326

HookOps == {"get_col_spec", "column_expression", "bind_expression",
            "result_processor", "process"}

\* C10: no hook call (get_col_spec, column_expression, bind_expression,
\* result_processor, a call of the closure), on any instance and in any
\* interleaving, changes an attribute of any instance or the registry.
C10_HooksLeaveStateAlone ==
  [][(last'.op \in HookOps) => (objs' = objs /\ registry' = registry)]_vars

C10_Witness ==
  /\ Decoded /\ last.row = 2 /\ last.self = 1
  /\ objs[1] = Instance("Geography",
                        [geometry_type |-> <<80,79,73,78,84>> (* POINT *), srid |-> 4326,
                         dimension |-> 3, spatial_index |-> FALSE, management |-> TRUE])
  /\ objs[2] # NoObj
====
